---- MODULE Spec2Model ----
(***************************************************************************)
(* A model of the Zomato data-cleaning pipeline (DS/Task1/Zomato):         *)
(* DataCleaner, FeatureEngineer, QualityChecker and the orchestrating      *)
(* ZomatoDataCleaningPipeline.                                             *)
(*                                                                         *)
(* Tables (pandas DataFrames) are records [columns, rows]: a set of column *)
(* names and a sequence of rows, each row a function from the column names *)
(* to cells.  A cell is a record [k, n, s]: k is its kind ("null" for      *)
(* NaN/None, "num" for a number, "str" for text, "cat" for a categorical   *)
(* label), n the number, s the text as a sequence of one-character         *)
(* strings.  Numbers are fixed point: the integer n stands for n / Scale,  *)
(* so that medians (halves), quartiles (quarters) and the IQR bounds       *)
(* (eighths) of the decimal inputs are computed exactly.                   *)
(***************************************************************************)
EXTENDS Integers, Sequences, FiniteSets, TLC

VARIABLES
    pc,              \* position of run_pipeline
    original_df,     \* self.original_df
    df,              \* the local df_cleaned of run_pipeline
    cleaned_df,      \* self.cleaned_df
    quality_report,  \* self.quality_report
    csv_file,        \* the cleaned-table artifact on disk
    report_file,     \* the report artifact on disk
    raised,          \* the exception run_pipeline re-raised, or "none"
    trace,           \* the steps the run has executed, in order
    summary,         \* the status get_pipeline_summary last returned
    call             \* the call of a single operation (SpecOps)

vars == <<pc, original_df, df, cleaned_df, quality_report, csv_file,
          report_file, raised, trace, summary, call>>

----------------------------------------------------------------------------
(* Bounds of the model.                                                    *)

MaxRows == 4

(* One unit of the fixed-point numbers is 1/Scale: tenths (one decimal     *)
(* digit of the inputs) times sixteenths (median, quartiles, 1.5 * IQR).   *)
Scale == 16 * 10

----------------------------------------------------------------------------
(* Cells.                                                                  *)

Null == [k |-> "null", n |-> 0, s |-> <<>>]
Num(x) == [k |-> "num", n |-> x, s |-> <<>>]
Str(t) == [k |-> "str", n |-> 0, s |-> t]
Cat(label) == [k |-> "cat", n |-> 0, s |-> <<label>>]
Inf(sign) == [k |-> "inf", n |-> sign, s |-> <<>>]

isna(c) == c.k = "null"

----------------------------------------------------------------------------
(* Text: str.strip, str.title, float(str) and the search for the first      *)
(* numeric token (digits, an optional dot, digits).                        *)

DigitChars == <<"0", "1", "2", "3", "4", "5", "6", "7", "8", "9">>
LowerChars == <<"a", "b", "c", "d", "e", "f", "g", "h", "i", "j", "k", "l", "m",
                "n", "o", "p", "q", "r", "s", "t", "u", "v", "w", "x", "y", "z">>
UpperChars == <<"A", "B", "C", "D", "E", "F", "G", "H", "I", "J", "K", "L", "M",
                "N", "O", "P", "Q", "R", "S", "T", "U", "V", "W", "X", "Y", "Z">>

InSeq(c, chars) == \E i \in 1..Len(chars) : chars[i] = c
IndexIn(c, chars) == CHOOSE i \in 1..Len(chars) : chars[i] = c

IsDigit(c) == InSeq(c, DigitChars)
DigitVal(c) == IndexIn(c, DigitChars) - 1
IsSpace(c) == c = " "
IsCased(c) == InSeq(c, LowerChars) \/ InSeq(c, UpperChars)
ToUpper(c) == IF InSeq(c, LowerChars) THEN UpperChars[IndexIn(c, LowerChars)] ELSE c
ToLower(c) == IF InSeq(c, UpperChars) THEN LowerChars[IndexIn(c, UpperChars)] ELSE c

(* str.strip(): drop the leading and the trailing whitespace. *)
RECURSIVE LStrip(_)
LStrip(t) == IF t # <<>> /\ IsSpace(Head(t)) THEN LStrip(Tail(t)) ELSE t
RECURSIVE RStrip(_)
RStrip(t) ==
    IF t # <<>> /\ IsSpace(t[Len(t)]) THEN RStrip(SubSeq(t, 1, Len(t) - 1)) ELSE t
Strip(t) == RStrip(LStrip(t))

(* str.title(): a cased character is upper-cased when it starts a word (it *)
(* follows an uncased character or nothing) and lower-cased otherwise.     *)
Title(t) ==
    [i \in 1..Len(t) |->
        IF i > 1 /\ IsCased(t[i - 1]) THEN ToLower(t[i]) ELSE ToUpper(t[i])]

(* Series.astype(str) of one cell: NaN becomes the text "nan".  Text       *)
(* columns of the modelled inputs hold text or NaN only.                   *)
AsStr(c) == IF isna(c) THEN <<"n", "a", "n">> ELSE c.s

(* The value, in units of 1/Scale, of the digits t[i..j] read as an        *)
(* integer, and of the digits t[i..j] read as a decimal fraction whose     *)
(* first digit has weight 1/p.                                             *)
RECURSIVE IntDigits(_, _, _)
IntDigits(t, i, j) ==
    IF j < i THEN 0 ELSE 10 * IntDigits(t, i, j - 1) + DigitVal(t[j])
RECURSIVE FracDigits(_, _, _, _)
FracDigits(t, i, j, p) ==
    IF j < i THEN 0
    ELSE (DigitVal(t[i]) * Scale) \div p + FracDigits(t, i + 1, j, p * 10)

(* The last index of the run of digits that starts at i (i - 1 if t[i] is  *)
(* no digit).                                                              *)
RECURSIVE DigitRunEnd(_, _)
DigitRunEnd(t, i) ==
    IF i <= Len(t) /\ IsDigit(t[i]) THEN DigitRunEnd(t, i + 1) ELSE i - 1

(* float() of the token digits[.digits] that starts at t[i].               *)
NumberAt(t, i) ==
    LET e == DigitRunEnd(t, i)
        hasDot == e + 1 <= Len(t) /\ t[e + 1] = "."
        f == IF hasDot THEN DigitRunEnd(t, e + 2) ELSE e
    IN  IntDigits(t, i, e) * Scale
        + (IF hasDot THEN FracDigits(t, e + 2, f, 10) ELSE 0)

HasDigit(t) == \E i \in 1..Len(t) : IsDigit(t[i])
FirstDigit(t) ==
    CHOOSE i \in 1..Len(t) : IsDigit(t[i]) /\ \A j \in 1..(i - 1) : ~IsDigit(t[j])

(* The text with every "," removed: str.replace(',', ''). *)
RECURSIVE RemoveCommas(_)
RemoveCommas(t) ==
    IF t = <<>> THEN <<>>
    ELSE IF Head(t) = "," THEN RemoveCommas(Tail(t))
    ELSE <<Head(t)>> \o RemoveCommas(Tail(t))

(* float(text) for the texts of the modelled inputs: surrounding           *)
(* whitespace is ignored, a sign may lead, and the rest is digits[.digits] *)
(* or .digits, or one of the words inf, infinity and nan in any case (an   *)
(* infinity, a NaN); anything else is a ValueError, returned as Null.      *)
FloatOfText(t) ==
    LET s == Strip(t)
        signed == s # <<>> /\ s[1] \in {"+", "-"}
        sign == IF signed /\ s[1] = "-" THEN -1 ELSE 1
        u == IF signed THEN Tail(s) ELSE s
        word == [i \in 1..Len(u) |-> ToLower(u[i])]
        e == DigitRunEnd(u, 1)
        hasDot == e + 1 <= Len(u) /\ u[e + 1] = "."
        f == IF hasDot THEN DigitRunEnd(u, e + 2) ELSE e
    IN  IF word \in {<<"i", "n", "f">>, <<"i", "n", "f", "i", "n", "i", "t", "y">>}
            THEN Inf(sign)
        ELSE IF (e >= 1 \/ (hasDot /\ f >= e + 2)) /\ f = Len(u)
            THEN Num(sign * NumberAt(u, 1))
        ELSE Null

----------------------------------------------------------------------------
(* Statistics of a sequence of cells: Series.median and Series.quantile    *)
(* skip the missing cells and interpolate linearly.                        *)

Present(cells) == SelectSeq(cells, LAMBDA c : ~isna(c))
SortedValues(cells) ==
    LET p == Present(cells)
    IN  SortSeq([i \in 1..Len(p) |-> p[i].n], LAMBDA a, b : a < b)

(* Series.median(): Null (NaN) when no value is present.  Infinite values *)
(* sort below and above the numbers; the mean of the two middle values is  *)
(* infinite when one of them is, and NaN for -inf and +inf.                *)
Median(cells) ==
    LET v == SortedValues(SelectSeq(cells, LAMBDA c : c.k = "num"))
        below == Len(SelectSeq(cells, LAMBDA c : c = Inf(-1)))
        above == Len(SelectSeq(cells, LAMBDA c : c = Inf(1)))
        n == Len(v) + below + above
        At(i) == IF i <= below THEN Inf(-1)
                 ELSE IF i > n - above THEN Inf(1)
                 ELSE Num(v[i - below])
        Mean(a, b) == IF a.k = "num" /\ b.k = "num" THEN Num((a.n + b.n) \div 2)
                      ELSE IF a.k = "inf" /\ b.k = "inf" /\ a # b THEN Null
                      ELSE IF a.k = "inf" THEN a
                      ELSE b
    IN  IF n = 0 THEN Null
        ELSE IF n % 2 = 1 THEN At((n + 1) \div 2)
        ELSE Mean(At(n \div 2), At(n \div 2 + 1))

(* Four times Series.quantile(k / 4) of a non-empty sorted sequence: the   *)
(* position (n - 1) * k / 4 is interpolated between its two neighbours.    *)
Quantile4(v, k) ==
    LET pos4 == (Len(v) - 1) * k
        lo == pos4 \div 4 + 1
        r == pos4 % 4
    IN  IF r = 0 THEN 4 * v[lo] ELSE 4 * v[lo] + r * (v[lo + 1] - v[lo])

----------------------------------------------------------------------------
(* Tables.                                                                 *)

Table(cols, rows) == [columns |-> cols, rows |-> rows]
NRows(T) == Len(T.rows)
NCols(T) == Cardinality(T.columns)
Column(T, c) == [i \in 1..NRows(T) |-> T.rows[i][c]]

(* df[c] = cells: adds the column, or replaces it when it exists. *)
SetColumn(T, c, cells) ==
    Table(T.columns \cup {c},
          [i \in 1..NRows(T) |->
              [x \in T.columns \cup {c} |-> IF x = c THEN cells[i] ELSE T.rows[i][x]]])

(* df.drop(columns = D): the rows stay, also when no column is left. *)
DropColumns(T, D) ==
    Table(T.columns \ D,
          [i \in 1..NRows(T) |-> [x \in T.columns \ D |-> T.rows[i][x]]])

(* df[c].isnull().sum() and df.isnull().sum().sum(). *)
MissingIn(T, c) == Cardinality({i \in 1..NRows(T) : isna(T.rows[i][c])})
RECURSIVE MissingOver(_, _)
MissingOver(T, cols) ==
    IF cols = {} THEN 0
    ELSE LET c == CHOOSE x \in cols : TRUE
         IN  MissingIn(T, c) + MissingOver(T, cols \ {c})
MissingCells(T) == MissingOver(T, T.columns)

(* The result of an operation that may raise. *)
Ok(T) == [ok |-> TRUE, table |-> T, error |-> "none"]
Raise(e) == [ok |-> FALSE, table |-> Table({}, <<>>), error |-> e]

----------------------------------------------------------------------------
(* DataCleaningConfig.                                                     *)

MISSING_THRESHOLD_PCT == 50
OUTLIER_IQR_MULTIPLIER_X2 == 3
TEXT_COLUMNS == <<"name", "location", "rest_type", "cuisines", "dish_liked">>

Edge(x) == [inf |-> FALSE, v |-> x]
PosInf == [inf |-> TRUE, v |-> 0]
COST_BINS == <<Edge(0), Edge(500), Edge(1000), Edge(2000), PosInf>>
COST_LABELS == <<"Budget", "Moderate", "Expensive", "Premium">>
RATING_BINS == <<Edge(0), Edge(2), Edge(3), Edge(4), Edge(5)>>
RATING_LABELS == <<"Poor", "Average", "Good", "Excellent">>

CostCol == "approx_cost(for two people)"

(* The texts that the code names. *)
ZeroOutOfFive == <<"0", " ", "o", "u", "t", " ", "o", "f", " ", "5">>
Unknown == <<"U", "n", "k", "n", "o", "w", "n">>
NotSpecified == <<"N", "o", "t", " ", "S", "p", "e", "c", "i", "f", "i", "e", "d">>

----------------------------------------------------------------------------
(* DataCleaner.                                                            *)

FillNa(cells, value) == [i \in 1..Len(cells) |-> IF isna(cells[i]) THEN value ELSE cells[i]]

(* The columns handle_missing_values drops: missing count > len * 0.5. *)
SparseColumns(T) ==
    {c \in T.columns : 100 * MissingIn(T, c) > NRows(T) * MISSING_THRESHOLD_PCT}

(* The imputation_strategy dict, as the pairs the loop visits in order. *)
ImputationStrategy(T) ==
    << <<"rate", Str(ZeroOutOfFive)>>,
       <<CostCol, Median(Column(T, CostCol))>>,
       <<"cuisines", Str(Unknown)>>,
       <<"dish_liked", Str(NotSpecified)>> >>

RECURSIVE Impute(_, _)
Impute(T, strategy) ==
    IF strategy = <<>> THEN T
    ELSE LET column == Head(strategy)[1]
             value == Head(strategy)[2]
         IN  Impute(IF column \in T.columns
                        THEN SetColumn(T, column, FillNa(Column(T, column), value))
                        ELSE T,
                    Tail(strategy))

(* handle_missing_values.  The strategy dict reads the cost column before  *)
(* any membership test: a KeyError when the column is absent or was just   *)
(* dropped.  Series.median() of a column that holds text (such as "1,200") *)
(* is a TypeError.                                                         *)
handle_missing_values(T) ==
    LET T1 == DropColumns(T, SparseColumns(T))
    IN  IF CostCol \notin T1.columns THEN Raise("KeyError")
        ELSE IF \E i \in 1..NRows(T1) : T1.rows[i][CostCol].k = "str"
            THEN Raise("TypeError")
        ELSE Ok(Impute(T1, ImputationStrategy(T1)))

(* remove_duplicates: df.drop_duplicates() keeps the first occurrence of   *)
(* every row (missing cells compare equal) in the original order.          *)
RECURSIVE DropDuplicateRows(_, _)
DropDuplicateRows(rows, seen) ==
    IF rows = <<>> THEN <<>>
    ELSE IF Head(rows) \in seen THEN DropDuplicateRows(Tail(rows), seen)
    ELSE <<Head(rows)>> \o DropDuplicateRows(Tail(rows), seen \cup {Head(rows)})

(* Only a row equal to the row right before it is dropped. *)
remove_adjacent_duplicates(T) ==
    LET keep == SelectSeq([i \in 1..NRows(T) |-> i],
                          LAMBDA i : i = 1 \/ T.rows[i - 1] # T.rows[i])
    IN  Table(T.columns, [k \in 1..Len(keep) |-> T.rows[keep[k]]])

remove_duplicates(T) == Table(T.columns, DropDuplicateRows(T.rows, {}))

(* standardize_text_columns: astype(str), strip, title on every configured *)
(* text column that is present.                                            *)
RECURSIVE StandardizeColumns(_, _)
StandardizeColumns(T, columns) ==
    IF columns = <<>> THEN T
    ELSE LET c == Head(columns)
         IN  StandardizeColumns(
                 IF c \in T.columns
                     THEN SetColumn(T, c,
                              [i \in 1..NRows(T) |-> Str(Title(Strip(AsStr(T.rows[i][c]))))])
                     ELSE T,
                 Tail(columns))

standardize_text_columns(T) == StandardizeColumns(T, TEXT_COLUMNS)

(* _extract_rating: the first numeric token of a text, float() of anything *)
(* else, NaN for a missing value and for a text without a number.          *)
extract_rating(c) ==
    IF isna(c) THEN Null
    ELSE IF c.k = "str"
        THEN IF HasDigit(c.s) THEN Num(NumberAt(c.s, FirstDigit(c.s)))
             ELSE FloatOfText(c.s)
    ELSE Num(c.n)

(* _clean_cost: float() of the text without its commas, or of the number. *)
clean_cost(c) ==
    IF isna(c) THEN Null
    ELSE IF c.k = "str" THEN FloatOfText(RemoveCommas(c.s))
    ELSE Num(c.n)

(* correct_data_types: rate_clean is the extracted rating with the median  *)
(* of the extracted ratings where none was found; cost_for_two the cleaned *)
(* cost.                                                                   *)
correct_data_types(T) ==
    LET extracted == [i \in 1..NRows(T) |-> extract_rating(T.rows[i]["rate"])]
        T1 == IF "rate" \in T.columns
                  THEN SetColumn(T, "rate_clean", FillNa(extracted, Median(extracted)))
                  ELSE T
    IN  IF CostCol \in T1.columns
            THEN SetColumn(T1, "cost_for_two",
                     [i \in 1..NRows(T1) |-> clean_cost(T1.rows[i][CostCol])])
            ELSE T1

(* handle_outliers, one column.  Eight times the bounds                    *)
(* Q1 - 1.5 * IQR and Q3 + 1.5 * IQR, from four times the quartiles; no    *)
(* bound (NaN) when the column has no value.                               *)
HasValues(cells) == Present(cells) # <<>>
Q1x4(cells) == Quantile4(SortedValues(cells), 1)
Q3x4(cells) == Quantile4(SortedValues(cells), 3)
LowerBound8(cells) ==
    2 * Q1x4(cells) - OUTLIER_IQR_MULTIPLIER_X2 * (Q3x4(cells) - Q1x4(cells))
UpperBound8(cells) ==
    2 * Q3x4(cells) + OUTLIER_IQR_MULTIPLIER_X2 * (Q3x4(cells) - Q1x4(cells))

(* (df[col] < lower_bound) | (df[col] > upper_bound): false for NaN. *)
IsOutlier(c, lower8, upper8) == ~isna(c) /\ (8 * c.n < lower8 \/ 8 * c.n > upper8)

(* A clip that applies the upper bound only. *)
ClipCellUpperOnly(c, lower8, upper8) ==
    IF ~isna(c) /\ 8 * c.n > upper8 THEN Num(upper8 \div 8) ELSE c

(* np.clip of one cell; the bounds are whole units for the inputs of the   *)
(* model, whose values are multiples of 8 units.                           *)
ClipCell(c, lower8, upper8) ==
    IF isna(c) THEN c
    ELSE IF 8 * c.n < lower8 THEN Num(lower8 \div 8)
    ELSE IF 8 * c.n > upper8 THEN Num(upper8 \div 8)
    ELSE c

OutliersCount(cells) ==
    IF ~HasValues(cells) THEN 0
    ELSE Cardinality({i \in 1..Len(cells) :
                         IsOutlier(cells[i], LowerBound8(cells), UpperBound8(cells))})

ClipColumn(cells) ==
    IF ~HasValues(cells) THEN cells
    ELSE [i \in 1..Len(cells) |->
             ClipCell(cells[i], LowerBound8(cells), UpperBound8(cells))]

NumericalCols == <<"rate_clean", "cost_for_two">>

RECURSIVE ClipColumns(_, _)
ClipColumns(T, columns) ==
    IF columns = <<>> THEN T
    ELSE LET c == Head(columns)
         IN  ClipColumns(IF c \in T.columns
                             THEN SetColumn(T, c, ClipColumn(Column(T, c)))
                             ELSE T,
                         Tail(columns))

(* handle_outliers: the clipped table and the outlier_report it logs. *)
handle_outliers(T) ==
    [table |-> ClipColumns(T, NumericalCols),
     outlier_report |->
         [c \in {x \in {"rate_clean", "cost_for_two"} : x \in T.columns} |->
             OutliersCount(Column(T, c))]]

----------------------------------------------------------------------------
(* FeatureEngineer.                                                        *)

CountOf(t, ch) == Cardinality({i \in 1..Len(t) : t[i] = ch})

(* _count_cuisines that counts the entries of a sentinel like any text. *)
count_cuisines_of_any_text(c) ==
    IF isna(c) THEN 0
    ELSE IF c.k = "str" THEN CountOf(c.s, ",") + 1
    ELSE 1

(* _count_cuisines: 0 for a missing value and for the two sentinels, else  *)
(* the length of str(value).split(',').                                    *)
count_cuisines(c) ==
    IF isna(c) \/ (c.k = "str" /\ c.s \in {Unknown, NotSpecified}) THEN 0
    ELSE IF c.k = "str" THEN CountOf(c.s, ",") + 1
    ELSE 1

(* pd.cut(x, bins, labels) with its defaults right=True and                *)
(* include_lowest=False: label i for bins[i] < x <= bins[i + 1], NaN for a *)
(* missing x and for an x in no bin.                                       *)
EdgeBelow(e, x) == ~e.inf /\ e.v * Scale < x
EdgeAtLeast(e, x) == e.inf \/ x <= e.v * Scale
InBin(x, bins, i) == EdgeBelow(bins[i], x) /\ EdgeAtLeast(bins[i + 1], x)

(* pd.cut with right=False: label i for bins[i] <= x < bins[i + 1]. *)
cut_left_closed(c, bins, labels) ==
    LET In(i) == ~bins[i].inf /\ bins[i].v * Scale <= c.n
                 /\ (bins[i + 1].inf \/ c.n < bins[i + 1].v * Scale)
    IN  IF isna(c) \/ ~\E i \in 1..Len(labels) : In(i) THEN Null
        ELSE Cat(labels[CHOOSE i \in 1..Len(labels) : In(i)])

cut(c, bins, labels) ==
    IF isna(c) \/ ~\E i \in 1..Len(labels) : InBin(c.n, bins, i) THEN Null
    ELSE Cat(labels[CHOOSE i \in 1..Len(labels) : InBin(c.n, bins, i)])

(* create_features. *)
create_features(T) ==
    LET T1 == IF "cuisines" \in T.columns
                  THEN SetColumn(T, "num_cuisines",
                           [i \in 1..NRows(T) |->
                               Num(count_cuisines(T.rows[i]["cuisines"]) * Scale)])
                  ELSE T
        T2 == IF "cost_for_two" \in T1.columns
                  THEN SetColumn(T1, "cost_category",
                           [i \in 1..NRows(T1) |->
                               cut(T1.rows[i]["cost_for_two"], COST_BINS, COST_LABELS)])
                  ELSE T1
    IN  IF "rate_clean" \in T2.columns
            THEN SetColumn(T2, "rating_category",
                     [i \in 1..NRows(T2) |->
                         cut(T2.rows[i]["rate_clean"], RATING_BINS, RATING_LABELS)])
            ELSE T2

----------------------------------------------------------------------------
(* QualityChecker.  A reported ratio is an integer number of 1/10000       *)
(* (round(x, 4)), a reported percentage an integer number of 1/100 of a    *)
(* percent (round(x, 2)).                                                  *)

(* a / b cut to an integer instead of rounded. *)
TruncDiv(a, b) == a \div b

(* round(a / b) for b > 0: the nearest integer, a tie going to the even    *)
(* one.                                                                    *)
RoundDiv(a, b) ==
    LET q == a \div b
        r == a % b
    IN  IF 2 * r < b THEN q
        ELSE IF 2 * r > b THEN q + 1
        ELSE IF q % 2 = 0 THEN q ELSE q + 1

(* The dtype pandas infers for a column, from its cells: a number column   *)
(* holds numbers and NaN only, a column of no rows is an object column.    *)
IsNumberColumn(T, c) ==
    NRows(T) > 0 /\ \A i \in 1..NRows(T) : T.rows[i][c].k \in {"num", "null"}
IsObjectColumn(T, c) ==
    NRows(T) = 0 \/ \E i \in 1..NRows(T) : T.rows[i][c].k = "str"

(* _calculate_quality_metrics (memory_usage_mb is not modelled). *)
calculate_quality_metrics(T) ==
    LET total_cells == NRows(T) * NCols(T)
        missing_cells == MissingCells(T)
    IN  [total_rows |-> NRows(T),
         total_columns |-> NCols(T),
         completeness_score |->
             IF total_cells > 0
                 THEN RoundDiv((total_cells - missing_cells) * 10000, total_cells)
                 ELSE 0,
         duplicate_rows |-> 0,
         numeric_columns |-> Cardinality({c \in T.columns : IsNumberColumn(T, c)}),
         categorical_columns |-> Cardinality({c \in T.columns : IsObjectColumn(T, c)}),
         total_missing_values |-> missing_cells,
         missing_value_percentage |->
             IF total_cells > 0 THEN RoundDiv(missing_cells * 10000, total_cells) ELSE 0]

(* 1 - missing / (rows * columns) if rows > 0 else 0, as the fraction      *)
(* num / den; with rows and no column the division is 0 / 0, a NaN.        *)
Completeness(T) ==
    IF NRows(T) = 0 THEN [nan |-> FALSE, num |-> 0, den |-> 1]
    ELSE IF NCols(T) = 0 THEN [nan |-> TRUE, num |-> 0, den |-> 1]
    ELSE [nan |-> FALSE,
          num |-> NRows(T) * NCols(T) - MissingCells(T),
          den |-> NRows(T) * NCols(T)]

(* round(x, 4) of a fraction and of a difference of two fractions. *)
Rounded(x) ==
    IF x.nan THEN [nan |-> TRUE, v |-> 0]
    ELSE [nan |-> FALSE, v |-> RoundDiv(x.num * 10000, x.den)]
RoundedDifference(x, y) ==
    IF x.nan \/ y.nan THEN [nan |-> TRUE, v |-> 0]
    ELSE [nan |-> FALSE,
          v |-> RoundDiv((x.num * y.den - y.num * x.den) * 10000, x.den * y.den)]

(* _calculate_cleaning_impact. *)
calculate_cleaning_impact(original, cleaned) ==
    LET original_completeness == Completeness(original)
        cleaned_completeness == Completeness(cleaned)
    IN  [rows_removed |-> NRows(original) - NRows(cleaned),
         columns_removed |-> NCols(original) - NCols(cleaned),
         missing_values_removed |-> MissingCells(original) - MissingCells(cleaned),
         completeness_improvement |->
             RoundedDifference(cleaned_completeness, original_completeness),
         original_completeness |-> Rounded(original_completeness),
         final_completeness |-> Rounded(cleaned_completeness)]

(* A call of _calculate_cleaning_impact.  A table with rows and without    *)
(* columns passes the guard len(df) > 0 and divides 0 by 0: a NaN where    *)
(* the missing count is a numpy number, a ZeroDivisionError where it is a  *)
(* Python number, which depends on the pandas build.                       *)
DividesByZero(T) == NRows(T) > 0 /\ NCols(T) = 0
cleaning_impact(original, cleaned, zeroDivRaises) ==
    IF zeroDivRaises /\ (DividesByZero(original) \/ DividesByZero(cleaned))
        THEN [ok |-> FALSE, error |-> "ZeroDivisionError",
              impact |-> calculate_cleaning_impact(Table({}, <<>>), Table({}, <<>>))]
        ELSE [ok |-> TRUE, error |-> "none",
              impact |-> calculate_cleaning_impact(original, cleaned)]

Min(a, b) == IF a < b THEN a ELSE b

(* _get_dataset_info (the dtype names are not modelled). *)
get_dataset_info(T) ==
    [shape |-> <<NRows(T), NCols(T)>>,
     columns |-> T.columns,
     sample_size |-> Min(3, NRows(T))]

(* generate_quality_report. *)
generate_quality_report(original, cleaned) ==
    [data_quality_metrics |-> calculate_quality_metrics(cleaned),
     cleaning_impact |-> calculate_cleaning_impact(original, cleaned),
     final_dataset_info |-> get_dataset_info(cleaned)]

(* The rules validate_data_quality uses when it is given None. *)
DefaultRules ==
    [max_missing_percentage |-> 5,
     min_rows |-> 100,
     required_columns |-> {"name", "rate_clean", "cost_for_two"}]

NoRules == [given |-> FALSE, dict |-> DefaultRules]
Rules(d) == [given |-> TRUE, dict |-> d]

Outcome(is_valid, passed, failed, warnings) ==
    [raised |-> "none", is_valid |-> is_valid, passed_checks |-> passed,
     failed_checks |-> failed, warnings |-> warnings]
Raised(e) ==
    [raised |-> e, is_valid |-> FALSE, passed_checks |-> <<>>,
     failed_checks |-> <<>>, warnings |-> <<>>]

(* The verdict of the row-count rule: a failure below min_rows. *)
RowCountVerdict(T, min_rows) ==
    IF NRows(T) < min_rows THEN "failed" ELSE "passed"

(* The verdict of the required-columns rule: one failure for all the       *)
(* missing columns.                                                        *)
RequiredColumnsVerdict(T, required_columns) ==
    IF \E c \in required_columns : c \notin T.columns THEN "failed" ELSE "passed"

(* The missing-values rule classified as a failure. *)
MissingValuesVerdictAsFailure(T, max_missing_percentage) ==
    IF NRows(T) * NCols(T) > 0
           /\ MissingCells(T) * 100 > max_missing_percentage * NRows(T) * NCols(T)
        THEN "failed" ELSE "passed"

(* The verdict of the missing-values rule: a warning above the maximum.    *)
(* The percentage of a table without cells is 0 / 0, a NaN, which is not   *)
(* above any maximum.                                                      *)
MissingValuesVerdict(T, max_missing_percentage) ==
    IF NRows(T) * NCols(T) > 0
           /\ MissingCells(T) * 100 > max_missing_percentage * NRows(T) * NCols(T)
        THEN "warning" ELSE "passed"

(* validate_data_quality.  The defaults replace the rules only when rules  *)
(* is None; rules[key] of a key that is not given is a KeyError.  Dividing *)
(* by the zero cells of a table without columns gives NaN or, when the     *)
(* build sums the empty frame to a plain integer, a ZeroDivisionError      *)
(* (zeroDivRaises).                                                        *)
validate_data_quality(T, rules, zeroDivRaises) ==
    LET r == IF rules.given THEN rules.dict ELSE DefaultRules
        checks ==
            << <<"min_rows", RowCountVerdict(T, r.min_rows)>>,
               <<"required_columns", RequiredColumnsVerdict(T, r.required_columns)>>,
               <<"max_missing_percentage",
                 MissingValuesVerdict(T, r.max_missing_percentage)>> >>
        Named(kind) ==
            LET hits == SelectSeq(checks, LAMBDA x : x[2] = kind)
            IN  [i \in 1..Len(hits) |-> hits[i][1]]
        noNumeric == \A c \in T.columns : ~IsNumberColumn(T, c)
    IN  IF "min_rows" \notin DOMAIN r THEN Raised("KeyError")
        ELSE IF "required_columns" \notin DOMAIN r THEN Raised("KeyError")
        ELSE IF NCols(T) = 0 /\ zeroDivRaises THEN Raised("ZeroDivisionError")
        ELSE IF "max_missing_percentage" \notin DOMAIN r THEN Raised("KeyError")
        ELSE Outcome(Named("failed") = <<>>, Named("passed"), Named("failed"),
                     Named("warning")
                         \o (IF noNumeric THEN <<"numeric_columns">> ELSE <<>>))

----------------------------------------------------------------------------
(* The input tables: what DataLoader.load_data (pd.read_csv) can return.   *)
(* A table takes a set of columns and up to MaxRows rows from a pool of    *)
(* rows.  A cost column that holds a text such as "1,200" is an object     *)
(* column; its other cells stand for the texts of their numbers.          *)

RawColumns == {"name", "rate", CostCol, "cuisines", "dish_liked"}

Row(name, rate, cost, cuisines, dish_liked) ==
    [c \in RawColumns |->
        CASE c = "name" -> name
          [] c = "rate" -> rate
          [] c = CostCol -> cost
          [] c = "cuisines" -> cuisines
          [] c = "dish_liked" -> dish_liked]

RowPool ==
    << Row(Str(<<" ", "r", "e", "s", "t", "a", "u", "r", "a", "n", "t", " ", "a", " ">>), Str(<<"4", ".", "1", "/", "5">>), Num(800 * Scale), Str(<<"N", "o", "r", "t", "h", " ", "I", "n", "d", "i", "a", "n", ",", " ", "C", "h", "i", "n", "e", "s", "e">>), Str(<<"p", "a", "s", "t", "a">>)),
       Row(Str(<<"R", "e", "s", "t", "a", "u", "r", "a", "n", "t", " ", "A">>), Str(<<"4", ".", "1", "/", "5">>), Num(800 * Scale), Str(<<"N", "o", "r", "t", "h", " ", "I", "n", "d", "i", "a", "n", ",", " ", "C", "h", "i", "n", "e", "s", "e">>), Str(<<"p", "a", "s", "t", "a">>)),
       Row(Str(<<"r", "e", "s", "t", "a", "u", "r", "a", "n", "t", " ", "b">>), Str(<<"3", ".", "8">>), Str(<<"1", ",", "2", "0", "0">>), Str(<<"I", "t", "a", "l", "i", "a", "n">>), Str(<<"p", "a", "s", "t", "a">>)),
       Row(Null, Null, Null, Null, Null),
       Row(Str(<<"C", "A", "F", "E", " ", "c">>), Str(<<"N", "e", "w">>), Num(300 * Scale), Null, Str(<<"p", "a", "s", "t", "a">>)) >>

ColumnSets ==
    { RawColumns,
      RawColumns \ {CostCol},
      RawColumns \ {"rate"},
      {"name", CostCol},
      {"rate", CostCol, "cuisines"} }

IndexSeqs(n, k) == UNION {[1..m -> 1..k] : m \in 0..n}

Project(row, cols) == [c \in cols |-> row[c]]

TablesFrom(pool, colsets, n) ==
    {Table(cs, [i \in 1..Len(q) |-> Project(pool[q[i]], cs)]) :
        cs \in colsets, q \in IndexSeqs(n, Len(pool))}

InputTables == TablesFrom(RowPool, ColumnSets, MaxRows)

----------------------------------------------------------------------------
(* ZomatoDataCleaningPipeline: one pipeline object and its run.            *)

NoTable == Table({}, <<>>)
NoReport == [present |-> FALSE, report |-> generate_quality_report(NoTable, NoTable)]
NoFile == [written |-> FALSE, complete |-> FALSE, table |-> NoTable]
NoCall == [op |-> "none"]

(* run_pipeline with the outlier step ahead of the type correction. *)
StepAfterSwapped(step) ==
    CASE step = "load" -> "handle_missing_values"
      [] step = "handle_missing_values" -> "remove_duplicates"
      [] step = "remove_duplicates" -> "standardize_text_columns"
      [] step = "standardize_text_columns" -> "handle_outliers"
      [] step = "handle_outliers" -> "correct_data_types"
      [] step = "correct_data_types" -> "create_features"
      [] step = "create_features" -> "generate_quality_report"
      [] step = "generate_quality_report" -> "save_results"
      [] step = "save_results" -> "completed"

(* The statement of run_pipeline that follows a statement. *)
StepAfter(step) ==
    CASE step = "load" -> "handle_missing_values"
      [] step = "handle_missing_values" -> "remove_duplicates"
      [] step = "remove_duplicates" -> "standardize_text_columns"
      [] step = "standardize_text_columns" -> "correct_data_types"
      [] step = "correct_data_types" -> "handle_outliers"
      [] step = "handle_outliers" -> "create_features"
      [] step = "create_features" -> "generate_quality_report"
      [] step = "generate_quality_report" -> "save_results"
      [] step = "save_results" -> "completed"

(* get_pipeline_summary: the status it reports. *)
get_pipeline_summary ==
    IF ~quality_report.present THEN "Pipeline not executed" ELSE "completed"

Init ==
    /\ pc = "load"
    /\ original_df = NoTable
    /\ df = NoTable
    /\ cleaned_df = NoTable
    /\ quality_report = NoReport
    /\ csv_file = NoFile
    /\ report_file = NoFile
    /\ raised = "none"
    /\ trace = <<>>
    /\ summary = "none"
    /\ call = NoCall

(* except Exception: log and re-raise. *)
Fail(e) ==
    /\ raised' = e
    /\ pc' = "failed"

(* Step 1: self.original_df = self.data_loader.load_data(path). *)
LoadData ==
    /\ pc = "load"
    /\ trace' = Append(trace, "load")
    /\ \/ /\ \E T \in InputTables : original_df' = T
          /\ pc' = StepAfter("load")
          /\ UNCHANGED raised
       \/ /\ Fail("FileNotFoundError")
          /\ UNCHANGED original_df
    /\ UNCHANGED <<df, cleaned_df, quality_report, csv_file, report_file, summary, call>>

(* Step 2, handle_missing_values: the sparse columns are dropped, then the *)
(* strategy dict is built (where it raises), then the columns are imputed. *)
HandleMissingValues ==
    /\ pc = "handle_missing_values"
    /\ LET r == handle_missing_values(original_df)
       IN  IF r.ok
               THEN /\ df' = r.table
                    /\ trace' = trace \o <<"drop_sparse_columns", "impute">>
                    /\ pc' = StepAfter("handle_missing_values")
                    /\ UNCHANGED raised
               ELSE /\ Fail(r.error)
                    /\ trace' = Append(trace, "drop_sparse_columns")
                    /\ UNCHANGED df
    /\ UNCHANGED <<original_df, cleaned_df, quality_report, csv_file, report_file,
                   summary, call>>

(* df_cleaned = self.data_cleaner.remove_duplicates(df_cleaned). *)
RemoveDuplicates ==
    /\ pc = "remove_duplicates"
    /\ df' = remove_duplicates(df)
    /\ trace' = Append(trace, "remove_duplicates")
    /\ pc' = StepAfter("remove_duplicates")
    /\ UNCHANGED <<original_df, cleaned_df, quality_report, csv_file, report_file,
                   raised, summary, call>>

(* df_cleaned = self.data_cleaner.standardize_text_columns(df_cleaned). *)
StandardizeTextColumns ==
    /\ pc = "standardize_text_columns"
    /\ df' = standardize_text_columns(df)
    /\ trace' = Append(trace, "standardize_text_columns")
    /\ pc' = StepAfter("standardize_text_columns")
    /\ UNCHANGED <<original_df, cleaned_df, quality_report, csv_file, report_file,
                   raised, summary, call>>

(* df_cleaned = self.data_cleaner.correct_data_types(df_cleaned). *)
CorrectDataTypes ==
    /\ pc = "correct_data_types"
    /\ df' = correct_data_types(df)
    /\ trace' = Append(trace, "correct_data_types")
    /\ pc' = StepAfter("correct_data_types")
    /\ UNCHANGED <<original_df, cleaned_df, quality_report, csv_file, report_file,
                   raised, summary, call>>

(* df_cleaned = self.data_cleaner.handle_outliers(df_cleaned). *)
HandleOutliers ==
    /\ pc = "handle_outliers"
    /\ df' = handle_outliers(df).table
    /\ trace' = Append(trace, "handle_outliers")
    /\ pc' = StepAfter("handle_outliers")
    /\ UNCHANGED <<original_df, cleaned_df, quality_report, csv_file, report_file,
                   raised, summary, call>>

(* Step 3: self.cleaned_df = self.feature_engineer.create_features(df_cleaned). *)
CreateFeatures ==
    /\ pc = "create_features"
    /\ cleaned_df' = create_features(df)
    /\ trace' = Append(trace, "create_features")
    /\ pc' = StepAfter("create_features")
    /\ UNCHANGED <<original_df, df, quality_report, csv_file, report_file, raised,
                   summary, call>>

(* Step 4: self.quality_report = generate_quality_report(original, cleaned). *)
GenerateQualityReport ==
    /\ pc = "generate_quality_report"
    /\ quality_report' =
           [present |-> TRUE, report |-> generate_quality_report(original_df, cleaned_df)]
    /\ trace' = Append(trace, "generate_quality_report")
    /\ pc' = StepAfter("generate_quality_report")
    /\ UNCHANGED <<original_df, df, cleaned_df, csv_file, report_file, raised,
                   summary, call>>

(* Step 5, _save_results, first write: self.cleaned_df.to_csv(output_file), *)
(* which the file system may refuse.                                       *)
SaveCsv ==
    /\ pc = "save_results"
    /\ trace' = Append(trace, "save_results")
    /\ \/ /\ csv_file' = [written |-> TRUE, complete |-> TRUE, table |-> cleaned_df]
          /\ pc' = "save_report"
          /\ UNCHANGED raised
       \/ /\ Fail("OSError")
          /\ UNCHANGED csv_file
    /\ UNCHANGED <<original_df, df, cleaned_df, quality_report, report_file, summary,
                   call>>

(* _save_results, second write: open(report_file, 'w') creates the file    *)
(* and json.dump writes the report into it.  open may raise; json.dump     *)
(* raises a TypeError on a value it cannot serialize (the report holds the *)
(* numpy integers of isnull().sum().sum()) and leaves the file partial.    *)
SaveReport ==
    /\ pc = "save_report"
    /\ \/ /\ report_file' = [written |-> TRUE, complete |-> TRUE, table |-> NoTable]
          /\ pc' = StepAfter("save_results")
          /\ UNCHANGED raised
       \/ /\ report_file' = [written |-> TRUE, complete |-> FALSE, table |-> NoTable]
          /\ Fail("TypeError")
       \/ /\ Fail("OSError")
          /\ UNCHANGED report_file
    /\ UNCHANGED <<original_df, df, cleaned_df, quality_report, csv_file, trace,
                   summary, call>>

(* get_pipeline_summary(), called before or after the run. *)
GetPipelineSummary ==
    /\ pc \in {"load", "completed", "failed"}
    /\ summary' = get_pipeline_summary
    /\ UNCHANGED <<pc, original_df, df, cleaned_df, quality_report, csv_file,
                   report_file, raised, trace, call>>

Next ==
    \/ LoadData
    \/ HandleMissingValues
    \/ RemoveDuplicates
    \/ StandardizeTextColumns
    \/ CorrectDataTypes
    \/ HandleOutliers
    \/ CreateFeatures
    \/ GenerateQualityReport
    \/ SaveCsv
    \/ SaveReport
    \/ GetPipelineSummary

Spec == Init /\ [][Next]_vars

----------------------------------------------------------------------------
(* Single operations, each called once on an input drawn from a bounded    *)
(* set: the operation, its input and its result are recorded in call.      *)

MaxCostSteps == 9
MaxRatingTenths == 51
MaxValidateRows == 2
MaxImpactRows == 2
MaxRateRows == 3

(* Tables of the derived numeric columns, for handle_outliers. *)
NumericRow(name, rate_clean, cost_for_two) ==
    [c \in {"name", "rate_clean", "cost_for_two"} |->
        CASE c = "name" -> name
          [] c = "rate_clean" -> rate_clean
          [] c = "cost_for_two" -> cost_for_two]

NumericRowPool ==
    << NumericRow(Str(<<"a">>), Num(41 * 16), Num(800 * Scale)),
       NumericRow(Str(<<"b">>), Num(0), Num(300 * Scale)),
       NumericRow(Str(<<"c">>), Num(50 * 16), Num(5000 * Scale)),
       NumericRow(Str(<<"d">>), Null, Null) >>

NumericColumnSets ==
    { {"name", "rate_clean", "cost_for_two"}, {"name", "rate_clean"},
      {"name", "cost_for_two"}, {"name"} }

NumericTables == TablesFrom(NumericRowPool, NumericColumnSets, MaxRows)

(* One-row tables for create_features: costs in steps of 250 from -250,    *)
(* ratings in tenths from -0.1, each also missing.                         *)
CostValues == {Num(k * 250 * Scale) : k \in (-1)..MaxCostSteps} \cup {Null}
RatingValues == {Num(t * 16) : t \in (-1)..MaxRatingTenths} \cup {Null}
CuisineValues ==
    {Null, Str(Unknown), Str(NotSpecified), Str(<<"I", "t", "a", "l", "i", "a", "n">>),
     Str(<<"T", "h", "a", "i", ",", " ", "P", "i", "z", "z", "a">>),
     Str(<<"N", "o", "r", "t", "h", " ", "I", "n", "d", "i", "a", "n", ",", " ",
           "C", "h", "i", "n", "e", "s", "e">>),
     Str(<<"u", "n", "k", "n", "o", "w", "n">>),
     Str(<<"a", ",", "b", ",", "c">>), Str(<<"a", ",">>)}

FeatureTables ==
    {Table({"cost_for_two", "rate_clean"},
           << [c \in {"cost_for_two", "rate_clean"} |->
                  IF c = "cost_for_two" THEN v ELSE r] >>) :
        v \in CostValues, r \in RatingValues}
    \cup {Table({"cuisines"}, << [c \in {"cuisines"} |-> x] >>) : x \in CuisineValues}
    \cup {Table({"name"}, << [c \in {"name"} |-> Str(<<"a">>)] >>)}
    \cup {Table({"cuisines"},
                << [c \in {"cuisines"} |-> Str(<<"T", "h", "a", "i", ",", " ", "P", "i", "z", "z", "a">>)],
                   [c \in {"cuisines"} |-> Str(Unknown)],
                   [c \in {"cuisines"} |-> Null],
                   [c \in {"cuisines"} |-> Str(<<"I", "t", "a", "l", "i", "a", "n">>)] >>)}

(* Tables that already hold a column with the name of a derived feature,  *)
(* such as a cleaned table that is read back.                              *)
ExistingFeatureTables ==
    { Table({"cuisines", "num_cuisines"},
            << [c \in {"cuisines", "num_cuisines"} |->
                   IF c = "cuisines" THEN Str(<<"I", "t", "a", "l", "i", "a", "n">>)
                   ELSE Num(n * Scale)] >>) : n \in {1, 5} }
    \cup { Table({"cost_for_two", "cost_category"},
                 << [c \in {"cost_for_two", "cost_category"} |->
                        IF c = "cost_for_two" THEN Num(800 * Scale) ELSE x] >>) :
               x \in {Cat("Moderate"), Cat("Premium"), Str(<<"h", "i", "g", "h">>)} }
    \cup { Table({"name", "rating_category"},
                 << [c \in {"name", "rating_category"} |->
                        IF c = "name" THEN Str(<<"a">>) ELSE Cat("Good")] >>) }

(* Tables and rule sets for validate_data_quality; a table of 50 rows.     *)
ValidateTables ==
    TablesFrom(NumericRowPool, NumericColumnSets \cup {{}}, MaxValidateRows)
    \cup {Table({"name", "rate_clean", "cost_for_two"},
                [i \in 1..50 |-> NumericRowPool[1]])}

RuleKeys == {"max_missing_percentage", "min_rows", "required_columns"}
FullRules ==
    {[max_missing_percentage |-> p, min_rows |-> m, required_columns |-> cs] :
        p \in {0, 50}, m \in {1, 100},
        cs \in {{"name"}, {"name", "rate_clean", "cost_for_two"}}}
RuleSets ==
    {NoRules} \cup {Rules([k \in K |-> full[k]]) : K \in SUBSET RuleKeys, full \in FullRules}

(* Tables for the quality metrics: the input tables, tables of rows        *)
(* without columns, and a long table with one missing cell in 25000.       *)
LongTable ==
    Table({"rate"},
          [i \in 1..25000 |-> [c \in {"rate"} |-> IF i = 1 THEN Null ELSE Num(4 * Scale)]])
MetricsTables ==
    InputTables \cup {Table({}, [i \in 1..n |-> <<>>]) : n \in 0..MaxRows}
        \cup {LongTable}

(* Tables of a rate column for correct_data_types: ratings with and       *)
(* without a numeric token, a missing rating, and texts that float()       *)
(* accepts without a digit.                                                *)
RateValues ==
    << Str(<<"4", ".", "1", "/", "5">>), Str(<<"3", ".", "8">>), Str(<<"N", "e", "w">>),
       Null, Str(<<"i", "n", "f">>), Str(<<"-", "I", "n", "f", "i", "n", "i", "t", "y">>) >>
RateTables ==
    {Table({"rate"}, [i \in 1..Len(q) |-> [c \in {"rate"} |-> RateValues[q[i]]]]) :
        q \in IndexSeqs(MaxRateRows, Len(RateValues))}

(* Pairs of tables for the cleaning impact: rows with no, one and two      *)
(* missing cells, over three columns, one column and no column.            *)
ImpactRowPool ==
    << NumericRow(Str(<<"a">>), Num(41 * 16), Num(800 * Scale)),
       NumericRow(Str(<<"b">>), Null, Num(300 * Scale)),
       NumericRow(Str(<<"c">>), Null, Null) >>
ImpactTables ==
    TablesFrom(ImpactRowPool, {{"name", "rate_clean", "cost_for_two"}, {"name"}, {}},
               MaxImpactRows)

InitOps ==
    /\ pc = "ops"
    /\ original_df = NoTable
    /\ df = NoTable
    /\ cleaned_df = NoTable
    /\ quality_report = NoReport
    /\ csv_file = NoFile
    /\ report_file = NoFile
    /\ raised = "none"
    /\ trace = <<>>
    /\ summary = "none"
    /\ call = NoCall

pipelineVars ==
    <<pc, original_df, df, cleaned_df, quality_report, csv_file, report_file,
      raised, trace, summary>>

OpHandleMissingValues ==
    /\ call = NoCall
    /\ \E T \in InputTables :
        call' = [op |-> "handle_missing_values", table |-> T,
             result |-> handle_missing_values(T)]
    /\ UNCHANGED pipelineVars

OpRemoveDuplicates ==
    /\ call = NoCall
    /\ \E T \in InputTables :
        call' = [op |-> "remove_duplicates", table |-> T,
             result |-> Ok(remove_duplicates(T))]
    /\ UNCHANGED pipelineVars

OpStandardizeTextColumns ==
    /\ call = NoCall
    /\ \E T \in InputTables :
        call' = [op |-> "standardize_text_columns", table |-> T,
             result |-> Ok(standardize_text_columns(T))]
    /\ UNCHANGED pipelineVars

OpCorrectDataTypes ==
    /\ call = NoCall
    /\ \E T \in InputTables \cup RateTables :
        call' = [op |-> "correct_data_types", table |-> T,
             result |-> Ok(correct_data_types(T))]
    /\ UNCHANGED pipelineVars

OpHandleOutliers ==
    /\ call = NoCall
    /\ \E T \in NumericTables :
        call' = [op |-> "handle_outliers", table |-> T,
             result |-> Ok(handle_outliers(T).table),
             outlier_report |-> handle_outliers(T).outlier_report]
    /\ UNCHANGED pipelineVars

OpCreateFeatures ==
    /\ call = NoCall
    /\ \E T \in FeatureTables \cup ExistingFeatureTables :
        call' = [op |-> "create_features", table |-> T,
             result |-> Ok(create_features(T))]
    /\ UNCHANGED pipelineVars

OpQualityMetrics ==
    /\ call = NoCall
    /\ \E T \in MetricsTables :
        call' = [op |-> "calculate_quality_metrics", table |-> T,
             metrics |-> calculate_quality_metrics(T)]
    /\ UNCHANGED pipelineVars

OpValidateDataQuality ==
    /\ call = NoCall
    /\ \E T \in ValidateTables, rules \in RuleSets, zeroDivRaises \in BOOLEAN :
        call' = [op |-> "validate_data_quality", table |-> T, rules |-> rules,
             outcome |-> validate_data_quality(T, rules, zeroDivRaises)]
    /\ UNCHANGED pipelineVars

OpCleaningImpact ==
    /\ call = NoCall
    /\ \E original \in ImpactTables, cleaned \in ImpactTables, zeroDivRaises \in BOOLEAN :
        call' = [op |-> "calculate_cleaning_impact", original |-> original,
             cleaned |-> cleaned,
             outcome |-> cleaning_impact(original, cleaned, zeroDivRaises)]
    /\ UNCHANGED pipelineVars

(* The same operation on the table it has just returned. *)
OpHandleMissingValuesAgain ==
    /\ call.op = "handle_missing_values"
    /\ call.result.ok
    /\ call' = [op |-> "handle_missing_values_again", table |-> call.table,
             first |-> call.result,
             result |-> handle_missing_values(call.result.table)]
    /\ UNCHANGED pipelineVars

OpStandardizeTextColumnsAgain ==
    /\ call.op = "standardize_text_columns"
    /\ call' = [op |-> "standardize_text_columns_again", table |-> call.table,
             first |-> call.result,
             result |-> Ok(standardize_text_columns(call.result.table))]
    /\ UNCHANGED pipelineVars

NextOps ==
    \/ OpHandleMissingValues
    \/ OpRemoveDuplicates
    \/ OpStandardizeTextColumns
    \/ OpCorrectDataTypes
    \/ OpHandleOutliers
    \/ OpCreateFeatures
    \/ OpQualityMetrics
    \/ OpValidateDataQuality
    \/ OpCleaningImpact
    \/ OpHandleMissingValuesAgain
    \/ OpStandardizeTextColumnsAgain

SpecOps == InitOps /\ [][NextOps]_vars

----------------------------------------------------------------------------
(* Properties of the pipeline run (Spec).                                  *)

Range(q) == {q[i] : i \in 1..Len(q)}
IsPrefix(p, q) == Len(p) <= Len(q) /\ \A i \in 1..Len(p) : p[i] = q[i]

StepOrder ==
    <<"load", "drop_sparse_columns", "impute", "remove_duplicates",
      "standardize_text_columns", "correct_data_types", "handle_outliers",
      "create_features", "generate_quality_report", "save_results">>

(* C2: a run either fully completes or produces nothing: once any step of  *)
(* run_pipeline has raised, no output artifact has been written and        *)
(* get_pipeline_summary does not report "completed".                       *)
C2_AllOrNothing ==
    raised # "none"
    => /\ ~csv_file.written
       /\ ~report_file.written
       /\ get_pipeline_summary # "completed"

(* C3: in a run every step executes at most once and in the order load,    *)
(* sparse-column drop, imputation, deduplication, text normalization, type *)
(* coercion, outlier clipping, feature engineering, quality report, save;  *)
(* outlier clipping runs on a table in which coercion has produced         *)
(* cost_for_two and, if the table has ratings, rate_clean; a completed run *)
(* has produced its quality report, and a produced report never changes.   *)
C3_OrderedOnce ==
    /\ [](/\ IsPrefix(trace, StepOrder)
          /\ "handle_outliers" \in Range(trace)
                 => /\ "cost_for_two" \in df.columns
                    /\ "rate" \in df.columns => "rate_clean" \in df.columns
          /\ pc = "completed" => (quality_report.present /\ trace = StepOrder)
          /\ quality_report.present
                 => quality_report.report = generate_quality_report(original_df, cleaned_df))
    /\ [][quality_report.present => quality_report' = quality_report]_vars

(* Every step of the run has executed and the report exists. *)
C3_Witness ==
    /\ trace = StepOrder
    /\ quality_report.present
    /\ NRows(original_df) > 0

----------------------------------------------------------------------------
(* Properties of the single operations (SpecOps).                          *)

Labelled(c, label) == c = Cat(label)

(* C1: every Cleaner operation returns a table, without raising, when a    *)
(* source column it references is absent from its input, and leaves that   *)
(* column absent; handle_missing_values does so also when the cost column  *)
(* is absent or has just been dropped as sparse.                           *)
C1_AbsentColumnsTolerated ==
    /\ (/\ call.op = "handle_missing_values"
        /\ \/ CostCol \notin call.table.columns
           \/ CostCol \in SparseColumns(call.table))
       => /\ call.result.ok
          /\ CostCol \notin call.result.table.columns
    /\ call.op \in {"standardize_text_columns", "correct_data_types", "handle_outliers"}
       => /\ call.result.ok
          /\ \A c \in Range(TEXT_COLUMNS) \cup {"rate", CostCol} \cup Range(NumericalCols) :
                 c \notin call.table.columns => c \notin call.result.table.columns

(* C4 as stated: cost_category follows the half-open bins [0, 500),        *)
(* [500, 1000), [1000, 2000), [2000, inf) and is missing only for a        *)
(* missing or negative cost.                                               *)
C4_HalfOpenCostBins ==
    (call.op = "create_features" /\ "cost_for_two" \in call.table.columns)
    => \A i \in 1..NRows(call.table) :
           LET v == call.table.rows[i]["cost_for_two"]
               cat == call.result.table.rows[i]["cost_category"]
               In(lo, hi) == ~isna(v) /\ lo * Scale <= v.n /\ v.n < hi * Scale
           IN  /\ Labelled(cat, "Budget") <=> In(0, 500)
               /\ Labelled(cat, "Moderate") <=> In(500, 1000)
               /\ Labelled(cat, "Expensive") <=> In(1000, 2000)
               /\ Labelled(cat, "Premium") <=> (~isna(v) /\ 2000 * Scale <= v.n)
               /\ isna(cat) <=> (isna(v) \/ v.n < 0)

(* C4 as amended: cost_category follows the bins closed on the right,      *)
(* (0, 500], (500, 1000], (1000, 2000], (2000, inf), and is missing        *)
(* exactly for a missing cost and for a cost of 0 or less.                 *)
C4_RightClosedCostBins ==
    (call.op = "create_features" /\ "cost_for_two" \in call.table.columns)
    => \A i \in 1..NRows(call.table) :
           LET v == call.table.rows[i]["cost_for_two"]
               cat == call.result.table.rows[i]["cost_category"]
               In(lo, hi) == ~isna(v) /\ lo * Scale < v.n /\ v.n <= hi * Scale
           IN  /\ Labelled(cat, "Budget") <=> In(0, 500)
               /\ Labelled(cat, "Moderate") <=> In(500, 1000)
               /\ Labelled(cat, "Expensive") <=> In(1000, 2000)
               /\ Labelled(cat, "Premium") <=> (~isna(v) /\ 2000 * Scale < v.n)
               /\ isna(cat) <=> (isna(v) \/ v.n <= 0)

(* A cost on the edge 500 was binned, and is Budget. *)
C4_Witness ==
    /\ call.op = "create_features"
    /\ "cost_for_two" \in call.table.columns
    /\ call.table.rows[1]["cost_for_two"] = Num(500 * Scale)
    /\ Labelled(call.result.table.rows[1]["cost_category"], "Budget")

(* C5: every rating r with 0 <= r <= 5 gets a rating_category: Poor for    *)
(* 0 <= r < 2, Average for 2 <= r < 3, Good for 3 <= r < 4, Excellent for  *)
(* 4 <= r <= 5; also 0, the rating of the sentinel "0 out of 5".           *)
C5_EveryRatingLabelled ==
    (call.op = "create_features" /\ "rate_clean" \in call.table.columns)
    => \A i \in 1..NRows(call.table) :
           LET r == call.table.rows[i]["rate_clean"]
               cat == call.result.table.rows[i]["rating_category"]
               In(lo, hi) == lo * Scale <= r.n /\ r.n < hi * Scale
           IN  (~isna(r) /\ 0 <= r.n /\ r.n <= 5 * Scale)
               => /\ ~isna(cat)
                  /\ Labelled(cat, "Poor") <=> In(0, 2)
                  /\ Labelled(cat, "Average") <=> In(2, 3)
                  /\ Labelled(cat, "Good") <=> In(3, 4)
                  /\ Labelled(cat, "Excellent") <=> (4 * Scale <= r.n)

(* C6 as stated: completeness_score equals 1 - missing_cells/total_cells   *)
(* (0 when total_cells is 0), lies in [0, 1], and equals 1 if and only if  *)
(* the table has no missing cell.  Scores are in units of 1/10000.         *)
C6_ExactCompleteness ==
    call.op = "calculate_quality_metrics"
    => LET total == NRows(call.table) * NCols(call.table)
           missing == Cardinality({<<i, c>> \in (1..NRows(call.table)) \X call.table.columns :
                                      isna(call.table.rows[i][c])})
           score == call.metrics.completeness_score
       IN  /\ total = 0 => score = 0
           /\ total > 0 => score * total = (total - missing) * 10000
           /\ 0 <= score /\ score <= 10000
           /\ score = 10000 <=> missing = 0

(* C6 as amended: completeness_score is 1 - missing_cells/total_cells      *)
(* rounded to 4 decimal places (0 when total_cells is 0), lies in [0, 1],  *)
(* is 1 for every table that has cells and no missing cell, and is 1 only  *)
(* for a table that has cells of which at most 0.005% are missing.         *)
C6_RoundedCompleteness ==
    call.op = "calculate_quality_metrics"
    => LET total == NRows(call.table) * NCols(call.table)
           missing == Cardinality({<<i, c>> \in (1..NRows(call.table)) \X call.table.columns :
                                      isna(call.table.rows[i][c])})
           score == call.metrics.completeness_score
           error == score * total - (total - missing) * 10000
       IN  /\ total = 0 => score = 0
           /\ total > 0 => (2 * error <= total /\ -2 * error <= total)
           /\ 0 <= score /\ score <= 10000
           /\ (total > 0 /\ missing = 0) => score = 10000
           /\ score = 10000 => (total > 0 /\ missing * 20000 <= total)

(* A table with missing cells got a score that is not the exact ratio. *)
C6_Witness ==
    /\ call.op = "calculate_quality_metrics"
    /\ NRows(call.table) * NCols(call.table) > 0
    /\ call.metrics.total_missing_values > 0
    /\ call.metrics.completeness_score * NRows(call.table) * NCols(call.table)
           # (NRows(call.table) * NCols(call.table) - call.metrics.total_missing_values)
                 * 10000

(* C7: whenever validate_data_quality returns, a row count below min_rows  *)
(* and an absent required column each put their rule in failed_checks, a   *)
(* missing percentage above the maximum puts its rule in warnings and      *)
(* never in failed_checks, is_valid is true iff failed_checks is empty;    *)
(* a 50-row table with all required columns against min_rows = 100 is      *)
(* invalid with exactly one failed check, the row-count one.               *)
C7_ValidationClassification ==
    (call.op = "validate_data_quality" /\ call.outcome.raised = "none")
    => LET T == call.table
           r == IF call.rules.given THEN call.rules.dict ELSE DefaultRules
           o == call.outcome
           total == NRows(T) * NCols(T)
           above == total > 0 /\ MissingCells(T) * 100 > r.max_missing_percentage * total
       IN  /\ "min_rows" \in Range(o.failed_checks) <=> NRows(T) < r.min_rows
           /\ "required_columns" \in Range(o.failed_checks)
                  <=> ~(r.required_columns \subseteq T.columns)
           /\ Range(o.failed_checks) \subseteq {"min_rows", "required_columns"}
           /\ above => "max_missing_percentage" \in Range(o.warnings)
           /\ o.is_valid <=> o.failed_checks = <<>>
           /\ (NRows(T) = 50 /\ r.min_rows = 100 /\ r.required_columns \subseteq T.columns)
                  => (~o.is_valid /\ o.failed_checks = <<"min_rows">>)

(* The 50-row table was validated against min_rows = 100. *)
C7_Witness ==
    /\ call.op = "validate_data_quality"
    /\ call.outcome.raised = "none"
    /\ NRows(call.table) = 50
    /\ call.rules.given
    /\ call.rules.dict.min_rows = 100
    /\ call.outcome.failed_checks = <<"min_rows">>
    /\ ~call.outcome.is_valid

(* A missing percentage above the maximum was classified. *)
C7_WarningWitness ==
    /\ call.op = "validate_data_quality"
    /\ call.outcome.raised = "none"
    /\ "max_missing_percentage" \in Range(call.outcome.warnings)
    /\ call.outcome.is_valid

(* C8: given a rule set that leaves any of min_rows, required_columns or   *)
(* max_missing_percentage unset, validate_data_quality evaluates the unset *)
(* rule with its default and returns an outcome without raising (stated    *)
(* for tables that have columns).                                          *)
C8_UnsetRulesDefaulted ==
    (call.op = "validate_data_quality" /\ NCols(call.table) > 0)
    => LET given == IF call.rules.given THEN call.rules.dict ELSE DefaultRules
           merged == [k \in RuleKeys |->
                         IF k \in DOMAIN given THEN given[k] ELSE DefaultRules[k]]
       IN  /\ call.outcome.raised = "none"
           /\ call.outcome = validate_data_quality(call.table, Rules(merged), FALSE)

(* C9: remove_duplicates keeps exactly the first occurrence of every       *)
(* distinct row, in the original order, and leaves the columns unchanged;  *)
(* so neither the row count nor the column count grows.                    *)
C9_FirstOccurrencesKept ==
    call.op = "remove_duplicates"
    => LET rows == call.table.rows
           out == call.result.table
           first == {i \in 1..Len(rows) : \A j \in 1..(i - 1) : rows[j] # rows[i]}
           Nth(k) == CHOOSE i \in first : Cardinality({j \in first : j < i}) = k - 1
       IN  /\ out.columns = call.table.columns
           /\ NRows(out) = Cardinality(first)
           /\ \A k \in 1..NRows(out) : out.rows[k] = rows[Nth(k)]
           /\ NRows(out) <= Len(rows)
           /\ NCols(out) <= NCols(call.table)

(* A duplicate that does not follow its first occurrence was removed. *)
C9_Witness ==
    /\ call.op = "remove_duplicates"
    /\ NRows(call.table) >= 3
    /\ call.table.rows[1] = call.table.rows[3]
    /\ call.table.rows[1] # call.table.rows[2]
    /\ NRows(call.result.table) < NRows(call.table)

(* C10: after handle_outliers, in each of rate_clean and cost_for_two no   *)
(* value lies outside [Q1 - 1.5 IQR, Q3 + 1.5 IQR] of the column before    *)
(* the step; the reported outlier count is the number of values the clip   *)
(* changed; no row is removed and missing values stay missing.             *)
C10_ClippedIntoBounds ==
    call.op = "handle_outliers"
    => LET T == call.table
           out == call.result.table
       IN  /\ NRows(out) = NRows(T)
           /\ out.columns = T.columns
           /\ DOMAIN call.outlier_report = T.columns \cap {"rate_clean", "cost_for_two"}
           /\ \A c \in T.columns \cap {"rate_clean", "cost_for_two"} :
                  LET before == Column(T, c)
                      after == Column(out, c)
                  IN  /\ \A i \in 1..NRows(T) :
                             /\ isna(after[i]) <=> isna(before[i])
                             /\ (~isna(after[i]) /\ HasValues(before))
                                    => /\ LowerBound8(before) <= 8 * after[i].n
                                       /\ 8 * after[i].n <= UpperBound8(before)
                      /\ call.outlier_report[c]
                             = Cardinality({i \in 1..NRows(T) : after[i] # before[i]})

(* A value below the lower bound and a value above the upper bound were    *)
(* clipped.                                                                *)
C10_Witness ==
    /\ call.op = "handle_outliers"
    /\ "rate_clean" \in call.table.columns
    /\ call.outlier_report["rate_clean"] > 0
    /\ \E i \in 1..NRows(call.table) :
           /\ ~isna(call.table.rows[i]["rate_clean"])
           /\ call.table.rows[i]["rate_clean"].n < call.result.table.rows[i]["rate_clean"].n

(* C11: handle_missing_values of a table that has the cost column returns  *)
(* a table without missing values in rate, the cost column, cuisines and   *)
(* dish_liked, and applied to that table returns it unchanged;             *)
(* standardize_text_columns applied to its own result returns it unchanged.*)
ImputedColumns == {"rate", CostCol, "cuisines", "dish_liked"}

C11_Idempotent ==
    /\ (call.op = "handle_missing_values" /\ CostCol \in call.table.columns)
       => /\ call.result.ok
          /\ \A c \in ImputedColumns \cap call.result.table.columns :
                 MissingIn(call.result.table, c) = 0
    /\ call.op = "handle_missing_values_again" => call.result = call.first
    /\ call.op = "standardize_text_columns_again" => call.result = call.first

(* The part of C11 that holds: wherever handle_missing_values returns, its *)
(* result has no missing value in the imputed columns and is a fixed       *)
(* point; standardize_text_columns is idempotent on every table.           *)
C11_IdempotentWhereReturned ==
    /\ (call.op = "handle_missing_values" /\ call.result.ok)
       => \A c \in ImputedColumns \cap call.result.table.columns :
              MissingIn(call.result.table, c) = 0
    /\ call.op = "handle_missing_values_again" => call.result = call.first
    /\ call.op = "standardize_text_columns_again" => call.result = call.first

(* C12: every column of the table given to create_features is in the      *)
(* result with the same values, also a column that has the name of a       *)
(* derived feature.                                                        *)
C12_NoOverwrite ==
    call.op = "create_features"
    => /\ call.table.columns \subseteq call.result.table.columns
       /\ \A c \in call.table.columns :
              Column(call.result.table, c) = Column(call.table, c)

(* C16: the cleaning impact of every pair of tables is computed without a  *)
(* division by zero, rows_removed is the difference of the row counts,     *)
(* missing_values_removed the difference of the missing cells, and the     *)
(* reported completeness_improvement is the reported final_completeness    *)
(* minus the reported original_completeness.                               *)
C16_ImpactConsistent ==
    call.op = "calculate_cleaning_impact"
    => LET impact == call.outcome.impact
           Missing(T) == Cardinality({<<i, c>> \in (1..NRows(T)) \X T.columns :
                                         isna(T.rows[i][c])})
       IN  /\ call.outcome.ok
           /\ ~DividesByZero(call.original) /\ ~DividesByZero(call.cleaned)
           /\ impact.rows_removed = NRows(call.original) - NRows(call.cleaned)
           /\ impact.missing_values_removed = Missing(call.original) - Missing(call.cleaned)
           /\ ~impact.completeness_improvement.nan
           /\ impact.completeness_improvement.v
                  = impact.final_completeness.v - impact.original_completeness.v

(* The part of C16 that holds for every pair of tables: the two counts. *)
C16_CountsConsistent ==
    (call.op = "calculate_cleaning_impact" /\ call.outcome.ok)
    => LET impact == call.outcome.impact
           Missing(T) == Cardinality({<<i, c>> \in (1..NRows(T)) \X T.columns :
                                         isna(T.rows[i][c])})
       IN  /\ impact.rows_removed = NRows(call.original) - NRows(call.cleaned)
           /\ impact.missing_values_removed = Missing(call.original) - Missing(call.cleaned)

(* C16 without the division by zero: with tables that have a column, the   *)
(* reported improvement still differs from the difference of the reported  *)
(* completeness values when the two roundings do not add up.               *)
C16_RoundedDifferenceConsistent ==
    (/\ call.op = "calculate_cleaning_impact"
     /\ NCols(call.original) > 0 /\ NCols(call.cleaned) > 0)
    => call.outcome.impact.completeness_improvement.v
           = call.outcome.impact.final_completeness.v
             - call.outcome.impact.original_completeness.v

(* C13: correct_data_types sets rate_clean of a row to the first numeric   *)
(* token (digits, optionally a dot and digits) of the row's rate; a row    *)
(* whose rate has no such token or is missing gets the median of the       *)
(* tokens of the other rows, so rate_clean has no missing value when some  *)
(* row has a token.                                                        *)
HasToken(c) == c.k = "num" \/ (c.k = "str" /\ HasDigit(c.s))
TokenOf(c) ==
    IF ~HasToken(c) THEN Null
    ELSE IF c.k = "num" THEN c
    ELSE Num(NumberAt(c.s, FirstDigit(c.s)))

C13_RatingExtraction ==
    (call.op = "correct_data_types" /\ "rate" \in call.table.columns)
    => LET rate == Column(call.table, "rate")
           tokens == [i \in 1..Len(rate) |-> TokenOf(rate[i])]
           rate_clean == Column(call.result.table, "rate_clean")
       IN  /\ "rate_clean" \in call.result.table.columns
           /\ \A i \in 1..Len(rate) :
                  rate_clean[i] = IF HasToken(rate[i]) THEN tokens[i] ELSE Median(tokens)
           /\ (\E i \in 1..Len(rate) : HasToken(rate[i]))
                  => \A i \in 1..Len(rate) : ~isna(rate_clean[i])

(* The part of C13 that holds: the same for the tables in which no rate is *)
(* a text that float() reads as an infinity.                               *)
C13_RatingExtractionOfFiniteRatings ==
    (/\ call.op = "correct_data_types" /\ "rate" \in call.table.columns
     /\ \A i \in 1..NRows(call.table) :
            extract_rating(call.table.rows[i]["rate"]).k # "inf")
    => LET rate == Column(call.table, "rate")
           tokens == [i \in 1..Len(rate) |-> TokenOf(rate[i])]
           rate_clean == Column(call.result.table, "rate_clean")
       IN  /\ "rate_clean" \in call.result.table.columns
           /\ \A i \in 1..Len(rate) :
                  rate_clean[i] = IF HasToken(rate[i]) THEN tokens[i] ELSE Median(tokens)
           /\ (\E i \in 1..Len(rate) : HasToken(rate[i]))
                  => \A i \in 1..Len(rate) : ~isna(rate_clean[i])

(* C14: num_cuisines of a row is the number of comma-separated entries of  *)
(* its cuisines text (the pieces between the commas, one more than the     *)
(* commas), and 0 when cuisines is missing or is one of the sentinels      *)
(* "Unknown" and "Not Specified"; every value gets a count.                *)
RECURSIVE Entries(_)
Entries(t) ==
    IF t = <<>> THEN 1
    ELSE IF Head(t) = "," THEN 1 + Entries(Tail(t))
    ELSE Entries(Tail(t))

IsCompleteRow(row) == \A c \in DOMAIN row : ~isna(row[c])
IsNullRow(row) == \A c \in DOMAIN row : isna(row[c])
Scenario(T) ==
    /\ T.columns = RawColumns
    /\ NRows(T) = 4
    /\ \E n \in 1..4 :
           /\ IsNullRow(T.rows[n])
           /\ \A i \in (1..4) \ {n} : IsCompleteRow(T.rows[i])
           /\ Cardinality({T.rows[i] : i \in (1..4) \ {n}}) = 2
DerivedColumns ==
    {"cost_for_two", "rate_clean", "num_cuisines", "cost_category", "rating_category"}
ThreeRowsWithFeatures(T) ==
    /\ NRows(T) = 3
    /\ DerivedColumns \subseteq T.columns
    /\ \E i \in 1..3 :
           /\ T.rows[i]["rate"] = Str(ZeroOutOfFive)
           /\ T.rows[i]["cuisines"] = Str(Unknown)
           /\ T.rows[i]["dish_liked"] = Str(NotSpecified)
           /\ ~isna(T.rows[i][CostCol])

C15_EndToEnd ==
    Scenario(original_df)
    => /\ raised # "none" => "create_features" \in Range(trace)
       /\ "create_features" \in Range(trace) => ThreeRowsWithFeatures(cleaned_df)

(* The part of C15 that holds: the same for the inputs whose cost column   *)
(* holds numbers.                                                          *)
C15_EndToEndOfNumericCosts ==
    (/\ Scenario(original_df)
     /\ \A i \in 1..4 : original_df.rows[i][CostCol].k # "str")
    => /\ raised # "none" => "create_features" \in Range(trace)
       /\ "create_features" \in Range(trace) => ThreeRowsWithFeatures(cleaned_df)

(* A run of the scenario with numeric costs has produced its final table. *)
C15_ScenarioCompleted ==
    /\ Scenario(original_df)
    /\ pc = "completed"
    /\ ThreeRowsWithFeatures(cleaned_df)

(* C17: after a completed run no two rows of the final table are equal in  *)
(* all columns, so that the duplicate_rows = 0 of the quality report is    *)
(* true of the table.                                                      *)
DuplicateRows(T) ==
    Cardinality({i \in 1..NRows(T) : \E j \in 1..(i - 1) : T.rows[j] = T.rows[i]})

C17_NoDuplicatesAfterRun ==
    pc = "completed"
    => /\ quality_report.present
       /\ quality_report.report.data_quality_metrics.duplicate_rows
              = DuplicateRows(cleaned_df)
       /\ DuplicateRows(cleaned_df) = 0

====
